---- MODULE Spec2Model ----
(***************************************************************************)
(* csvconv: CSV -> JSON (Reader.ToJSON) and JSON -> CSV (JSONReader.ToCSV). *)
(*                                                                         *)
(* Text is modelled as sequences of one-character strings.  JSON bytes are *)
(* modelled by their token structure: an object or an array whose scalar   *)
(* tokens keep the exact text that was written, so that a token that is    *)
(* not valid JSON makes json.Unmarshal fail.  CSV bytes are modelled as a  *)
(* sequence of lines, each with its cells and the separator it was written *)
(* with.                                                                   *)
(*                                                                         *)
(* The repository holds two versions of the package: src/csvconv.go, where *)
(* parseJSONByColumn is a stub, and src/unnamed/part_000, where it is      *)
(* written out.  The variable build says which one a behaviour runs.  The  *)
(* Reader (ToJSON) is the same in both.                                    *)
(***************************************************************************)
EXTENDS Integers, Sequences, FiniteSets, TLC

VARIABLES
    build,            \* which version of the package runs
    \* ---- Reader (csvconv.go:19-24) and the csv.Reader it wraps
    input,            \* the records of the document behind the csv.Reader
    offset,           \* how many of them csv.Reader.Read has consumed
    FieldsPerRecord,  \* csv.Reader.FieldsPerRecord
    headerSet, header, nCols,
    \* ---- the last ToJSON call: whether one was made, its arguments, the
    \* ---- offset it started at, and what it returned
    jsonCalled, orient, nRowsArg, offset0,
    rowsRead, jsonData, err,
    \* ---- JSONReader (part_000:220-223)
    headersSet, expectedHeaders,
    \* ---- the last ToCSV call: its arguments, the session before it, and
    \* ---- what it returned; nCalls and nOk count the calls and the
    \* ---- successful calls of the session
    payload, sep, prev, csvOut, csvErr, nCalls, nOk

readerVars == <<input, offset, FieldsPerRecord, headerSet, header, nCols,
                jsonCalled, orient, nRowsArg, offset0, rowsRead, jsonData, err>>
sessionVars == <<headersSet, expectedHeaders, payload, sep, prev, csvOut,
                 csvErr, nCalls, nOk>>
vars == <<build, readerVars, sessionVars>>

----------------------------------------------------------------------------
(* Bounds of the model *)

\* data rows of a CSV document
MaxRows == 2
\* rows of a record-oriented JSON payload
MaxRecs == 1
\* length of a column array of a column-oriented JSON payload
MaxLen == 1
\* ToCSV calls on one session
MaxCalls == 3

Builds == {"csvconv.go", "part_000"}

\* column names
A == <<"a">>
B == <<"b">>
\* header rows of the documents
Headers == {<<A>>, <<A, B>>}
\* cells of the documents: empty, an integer, a string
CellValues == {<<>>, <<"1">>, <<"x">>}
\* and with them a decimal, and a text strconv.ParseFloat accepts that is not
\* a JSON number
CellValuesRT == CellValues \cup {<<"1", ".", "5">>, <<".", "5">>}
\* separators passed to NewReader and ToCSV
Seps == {",", ";"}

----------------------------------------------------------------------------
(* Text and numbers *)

DigitChars == <<"0", "1", "2", "3", "4", "5", "6", "7", "8", "9">>

IsDigit(c) == \E i \in 1..10 : DigitChars[i] = c

DigitVal(c) == (CHOOSE i \in 1..10 : DigitChars[i] = c) - 1

AllDigits(s) == \A i \in 1..Len(s) : IsDigit(s[i])

Pow10(n) == IF n = 0 THEN 1 ELSE IF n = 1 THEN 10 ELSE IF n = 2 THEN 100
            ELSE IF n = 3 THEN 1000 ELSE IF n = 4 THEN 10000
            ELSE IF n = 5 THEN 100000 ELSE 1000000

RECURSIVE DigitsVal(_)
DigitsVal(s) == IF s = <<>> THEN 0
                ELSE 10 * DigitsVal(SubSeq(s, 1, Len(s) - 1)) + DigitVal(s[Len(s)])

RECURSIVE Decimal(_)
\* fmt's %d of a natural number
Decimal(n) == IF n < 10 THEN <<DigitChars[n + 1]>>
              ELSE Decimal(n \div 10) \o <<DigitChars[(n % 10) + 1]>>

\* position of the decimal point of s, or 0
DotAt(s) == IF \E i \in 1..Len(s) : s[i] = "."
            THEN CHOOSE i \in 1..Len(s) : s[i] = "." /\ \A j \in 1..(i - 1) : s[j] # "."
            ELSE 0

Unsigned(s) == IF s # <<>> /\ s[1] \in {"+", "-"} THEN Tail(s) ELSE s

IntPart(s) == LET u == Unsigned(s) d == DotAt(u)
              IN IF d = 0 THEN u ELSE SubSeq(u, 1, d - 1)

FracPart(s) == LET u == Unsigned(s) d == DotAt(u)
               IN IF d = 0 THEN <<>> ELSE SubSeq(u, d + 1, Len(u))

\* strconv.ParseFloat(s, 64) returns no error, over texts made of digits,
\* signs, points and other letters without exponent, hex, inf or nan forms:
\* an optional sign, digits with at most one point, at least one digit.
ParseFloatOK(s) ==
    /\ AllDigits(IntPart(s)) /\ AllDigits(FracPart(s))
    /\ Len(IntPart(s)) + Len(FracPart(s)) >= 1

\* the float64 ParseFloat returns, in millionths (texts of at most six
\* fractional digits are held exactly enough for %f to print them back)
ParseFloatVal(s) ==
    LET f == FracPart(s)
        m == DigitsVal(IntPart(s)) * 1000000 + DigitsVal(f) * Pow10(6 - Len(f))
    IN IF s # <<>> /\ s[1] = "-" THEN 0 - m ELSE m

\* the grammar of a JSON number (encoding/json's scanner), without exponent:
\* -? (0 | [1-9][0-9]*) (. [0-9]+)?
JSONNumberOK(s) ==
    LET u == IF s # <<>> /\ s[1] = "-" THEN Tail(s) ELSE s
        d == DotAt(u)
        ip == IF d = 0 THEN u ELSE SubSeq(u, 1, d - 1)
        fp == IF d = 0 THEN <<>> ELSE SubSeq(u, d + 1, Len(u))
    IN /\ ip # <<>> /\ AllDigits(ip)
       /\ (Len(ip) > 1 => ip[1] # "0")
       /\ (d # 0 => fp # <<>> /\ AllDigits(fp))

\* fmt.Sprintf("%f", v) of a float64 held in millionths
SprintfF(v) ==
    LET m == IF v < 0 THEN 0 - v ELSE v
        frac == Decimal(m % 1000000)
        pad == [i \in 1..(6 - Len(frac)) |-> "0"]
    IN (IF v < 0 THEN <<"-">> ELSE <<>>) \o Decimal(m \div 1000000) \o <<".">> \o pad \o frac

----------------------------------------------------------------------------
(* JSON tokens *)

RawTok(s) == [t |-> "raw", text |-> s]
NullTok == [t |-> "null", text |-> <<>>]
\* strconv.Quote(s): s between double quotes
Quote(s) == [t |-> "str", text |-> s]

EmptyBytes == [shape |-> "empty", members |-> <<>>]

----------------------------------------------------------------------------
(* Reader: CSV -> JSON *)

OrientColumns == 0
OrientRecords == 1
\* a JSONOrient that is neither of the two
OrientOther == 2

\* row limits passed to ToJSON: negative is unbounded
Limits == (0 - 1)..MaxRows

\* the records of h's arity over cells
GoodRecords(h, cells) == [1..Len(h) -> cells]
\* one record of each other arity (what it holds is never looked at)
BadRecords(h) == {[i \in 1..n |-> <<"1">>] : n \in {Len(g) : g \in Headers} \ {Len(h)}}
\* well-formed documents: a header row, and data rows of its arity
WellFormedDocs(cells) ==
    UNION {{<<h>> \o rows : rows \in UNION {[1..n -> GoodRecords(h, cells)] : n \in 0..MaxRows}}
           : h \in Headers}
\* the documents: nothing at all, or a header row and data rows, some of the
\* wrong arity
Docs ==
    {<<>>} \cup
    UNION {{<<h>> \o rows :
               rows \in UNION {[1..n -> GoodRecords(h, CellValues) \cup BadRecords(h)]
                               : n \in 0..MaxRows}}
           : h \in Headers}

\* input is a header row and data rows of its arity
WellFormed == input # <<>> /\ \A i \in 1..Len(input) : Len(input[i]) = Len(input[1])

\* the Reader's fields and its csv.Reader's, as one value
Rd == [input |-> input, offset |-> offset, FieldsPerRecord |-> FieldsPerRecord,
       headerSet |-> headerSet, header |-> header, nCols |-> nCols]

\* csv.Reader.Read: the next record, io.EOF at the end, ErrFieldCount for a
\* record whose length is not FieldsPerRecord (the record is consumed)
csvRead(rd) ==
    IF rd.offset >= Len(rd.input)
    THEN [rd |-> rd, record |-> <<>>, err |-> "EOF"]
    ELSE LET rec == rd.input[rd.offset + 1]
             fpr == IF rd.FieldsPerRecord = 0 THEN Len(rec) ELSE rd.FieldsPerRecord
             rd1 == [rd EXCEPT !.offset = rd.offset + 1, !.FieldsPerRecord = fpr]
         IN IF fpr > 0 /\ Len(rec) # fpr
            THEN [rd |-> rd1, record |-> rec, err |-> "ErrFieldCount"]
            ELSE [rd |-> rd1, record |-> rec, err |-> "nil"]

\* setHeader after its r.reader.Read() returned x
setHeaderFrom(x) ==
    IF x.err # "nil"
    THEN [rd |-> x.rd, err |-> x.err]
    ELSE [rd |-> [x.rd EXCEPT !.nCols = Len(x.record),
                              !.header = [i \in 1..Len(x.record) |-> Quote(x.record[i])],
                              !.FieldsPerRecord = Len(x.record),
                              !.headerSet = TRUE],
          err |-> "nil"]

setHeader(rd) ==
    IF rd.headerSet
    THEN [rd |-> rd, err |-> "errHeaderAlreadySet"]
    ELSE setHeaderFrom(csvRead(rd))

\* Read after its r.reader.Read() returned x
ReadFrom(x) == [x EXCEPT !.record = IF x.err # "nil" THEN <<>> ELSE x.record]

Read(rd) == ReadFrom(csvRead(IF ~rd.headerSet THEN setHeader(rd).rd ELSE rd))

\* rowNum < nRows, with nRows = math.MaxInt64 when the limit is negative
InLoop(rowNum, nRows) == nRows < 0 \/ rowNum < nRows

\* what ToJSON writes for one cell
EmitCell(val) ==
    IF ParseFloatOK(val) THEN RawTok(val)
    ELSE IF val = <<>> THEN NullTok
    ELSE Quote(val)

RECURSIVE ColumnsLoop(_, _, _, _, _)
\* one turn of the read loop of OrientColumns, r.Read() having returned x
ColumnsStep(x, rowNum, nRows, nRead, data) ==
    IF x.err # "nil"
    THEN IF rowNum = 0 \/ x.err # "EOF"
         THEN [rd |-> x.rd, nRead |-> nRead, data |-> data, err |-> x.err]
         ELSE [rd |-> x.rd, nRead |-> nRead, data |-> data, err |-> "nil"]
    ELSE ColumnsLoop(x.rd, rowNum + 1, nRows, nRead + 1,
             [c \in DOMAIN data |->
                 IF c <= Len(x.record) THEN Append(data[c], x.record[c])
                 ELSE data[c]])

\* the read loop of OrientColumns: data holds the cells read, by column
ColumnsLoop(rd, rowNum, nRows, nRead, data) ==
    IF ~InLoop(rowNum, nRows)
    THEN [rd |-> rd, nRead |-> nRead, data |-> data, err |-> "nil"]
    ELSE ColumnsStep(Read(rd), rowNum, nRows, nRead, data)

RECURSIVE RecordsLoop(_, _, _, _, _)
\* one turn of the read loop of OrientRecords, r.Read() having returned x
RecordsStep(x, rowNum, nRows, nRead, elems) ==
    IF x.err # "nil"
    THEN IF rowNum = 0 \/ x.err # "EOF"
         THEN [rd |-> x.rd, nRead |-> nRead, elems |-> elems, err |-> x.err]
         ELSE [rd |-> x.rd, nRead |-> nRead, elems |-> elems, err |-> "nil"]
    ELSE RecordsLoop(x.rd, rowNum + 1, nRows, nRead + 1,
             Append(elems,
                 [c \in 1..Len(x.record) |->
                     [key |-> x.rd.header[c], val |-> EmitCell(x.record[c])]]))

\* the read loop of OrientRecords: elems holds the objects written
RecordsLoop(rd, rowNum, nRows, nRead, elems) ==
    IF ~InLoop(rowNum, nRows)
    THEN [rd |-> rd, nRead |-> nRead, elems |-> elems, err |-> "nil"]
    ELSE RecordsStep(Read(rd), rowNum, nRows, nRead, elems)

\* what OrientColumns writes and returns after its read loop ended as l
ColumnsOut(l) ==
    IF l.err # "nil"
    THEN [rd |-> l.rd, nRead |-> l.nRead, out |-> EmptyBytes, err |-> l.err]
    ELSE [rd |-> l.rd, nRead |-> l.nRead, err |-> "nil",
          out |-> [shape |-> "object",
                   members |-> [c \in DOMAIN l.data |->
                       [key |-> l.rd.header[c],
                        vals |-> [i \in 1..Len(l.data[c]) |-> EmitCell(l.data[c][i])]]]]]

\* what OrientRecords has written and returns after its read loop ended as l
RecordsOut(l) ==
    IF l.err # "nil"
    THEN [rd |-> l.rd, nRead |-> l.nRead, err |-> l.err,
          out |-> [shape |-> "unclosed array", members |-> l.elems]]
    ELSE [rd |-> l.rd, nRead |-> l.nRead, err |-> "nil",
          out |-> [shape |-> "array", members |-> l.elems]]

\* toJSONStruct after its r.setHeader() left the Reader as rd0
toJSONStructFrom(rd0, o, nRows) ==
    IF o = OrientColumns
    THEN ColumnsOut(ColumnsLoop(rd0, 0, nRows, 0, [c \in 1..rd0.nCols |-> <<>>]))
    ELSE IF o = OrientRecords
    THEN RecordsOut(RecordsLoop(rd0, 0, nRows, 0, <<>>))
    ELSE [rd |-> rd0, nRead |-> 0, out |-> EmptyBytes, err |-> "Unknown orient method"]

\* the Reader after the call, the rows read, the bytes written to out, the
\* error
toJSONStruct(rd, o, nRows) == toJSONStructFrom(setHeader(rd).rd, o, nRows)

\* ToJSON returning the buffer whatever the error
ToJSONFromKeepingBuffer(x) ==
    [rd |-> x.rd, rowsRead |-> x.nRead, jsonData |-> x.out, err |-> x.err]

\* ToJSON after r.toJSONStruct(buf, orient, nRows) returned x
ToJSONFrom(x) ==
    IF x.err # "nil"
    THEN [rd |-> x.rd, rowsRead |-> x.nRead, jsonData |-> EmptyBytes, err |-> x.err]
    ELSE [rd |-> x.rd, rowsRead |-> x.nRead, jsonData |-> x.out, err |-> "nil"]

ToJSON(rd, o, nRows) == ToJSONFrom(toJSONStruct(rd, o, nRows))

\* NewReader, and no ToJSON call yet
NewReader ==
    /\ offset = 0 /\ FieldsPerRecord = 0
    /\ headerSet = FALSE /\ header = <<>> /\ nCols = 0
    /\ jsonCalled = FALSE /\ orient = OrientColumns /\ nRowsArg = 0 /\ offset0 = 0
    /\ rowsRead = 0 /\ jsonData = EmptyBytes /\ err = "nil"

\* the call r.ToJSON(o, n) returns x
ToJSONReturns(x, o, n) ==
    /\ offset' = x.rd.offset
    /\ FieldsPerRecord' = x.rd.FieldsPerRecord
    /\ headerSet' = x.rd.headerSet
    /\ header' = x.rd.header
    /\ nCols' = x.rd.nCols
    /\ jsonCalled' = TRUE /\ orient' = o /\ nRowsArg' = n /\ offset0' = offset
    /\ rowsRead' = x.rowsRead /\ jsonData' = x.jsonData /\ err' = x.err
    /\ UNCHANGED <<build, input, sessionVars>>

\* one call r.ToJSON(o, n)
ToJSONCall(o, n) == ToJSONReturns(ToJSON(Rd, o, n), o, n)

\* NewJSONReader, and no ToCSV call yet
NewJSONReader ==
    /\ headersSet = FALSE /\ expectedHeaders = <<>>
    /\ payload = EmptyBytes /\ sep = "," /\ prev = [headersSet |-> FALSE, expectedHeaders |-> <<>>]
    /\ csvOut = <<>> /\ csvErr = "nil" /\ nCalls = 0 /\ nOk = 0

InitToJSON ==
    /\ build = "part_000"
    /\ input \in Docs
    /\ NewReader
    /\ NewJSONReader

NextToJSON ==
    \/ \E o \in {OrientColumns, OrientRecords}, n \in Limits : ToJSONCall(o, n)
    \/ ToJSONCall(OrientOther, 0 - 1)

\* a Reader over any document, and any sequence of ToJSON calls on it
SpecToJSON == InitToJSON /\ [][NextToJSON]_vars

----------------------------------------------------------------------------
(* JSONReader: JSON -> CSV *)

\* the scalar tokens of bytes: every vals of an object, every val of an array
Tokens(data) ==
    IF data.shape = "object"
    THEN UNION {{data.members[i].vals[j] : j \in 1..Len(data.members[i].vals)}
                : i \in 1..Len(data.members)}
    ELSE IF data.shape = "array"
    THEN UNION {{data.members[i][j].val : j \in 1..Len(data.members[i])}
                : i \in 1..Len(data.members)}
    ELSE {}

\* the bytes are JSON text: closed, and every unquoted token a JSON number
ValidJSON(data) ==
    /\ data.shape \in {"object", "array", "scalar"}
    /\ \A tok \in Tokens(data) : tok.t = "raw" => JSONNumberOK(tok.text)

\* json.Unmarshal(data, &byRecord) returns nil: an array of objects
UnmarshalByRecordOK(data) == ValidJSON(data) /\ data.shape = "array"

\* json.Unmarshal(data, &byColumn) returns nil: an object of arrays
UnmarshalByColumnOK(data) == ValidJSON(data) /\ data.shape = "object"

\* the interface{} json.Unmarshal makes of a scalar: a number is a float64
Decode(tok) ==
    IF tok.t = "raw" THEN [t |-> "float64", v |-> ParseFloatVal(tok.text), s |-> <<>>]
    ELSE IF tok.t = "null" THEN [t |-> "nil", v |-> 0, s |-> <<>>]
    ELSE [t |-> "string", v |-> 0, s |-> tok.text]

\* the last member with key k (a repeated key overwrites the map entry)
LastWith(ms, k) == CHOOSE i \in 1..Len(ms) :
                      /\ ms[i].key.text = k
                      /\ \A j \in (i + 1)..Len(ms) : ms[j].key.text # k

\* byRecord: one map per element
DecodeRecords(data) ==
    [r \in 1..Len(data.members) |->
        LET ms == data.members[r]
        IN [k \in {ms[i].key.text : i \in 1..Len(ms)} |-> Decode(ms[LastWith(ms, k)].val)]]

\* byColumn: a map from key to array
DecodeColumns(data) ==
    LET ms == data.members
    IN [k \in {ms[i].key.text : i \in 1..Len(ms)} |->
           LET vals == ms[LastWith(ms, k)].vals
           IN [j \in 1..Len(vals) |-> Decode(vals[j])]]

\* the switch on the value's type (part_000:297-308, 369-380)
Stringify(val) ==
    IF val.t = "int" THEN Decimal(val.v)
    ELSE IF val.t = "float64" THEN SprintfF(val.v)
    ELSE IF val.t = "nil" THEN <<>>
    ELSE val.s

\* the orders in which ranging over a map with key set S may yield its keys
Orderings(S) == {q \in [1..Cardinality(S) -> S] : \A i, j \in DOMAIN q : i # j => q[i] # q[j]}

appendIfMissing(slice, i) ==
    IF \E j \in 1..Len(slice) : slice[j] = i THEN slice ELSE Append(slice, i)

RECURSIVE AppendAllIfMissing(_, _)
AppendAllIfMissing(slice, ks) ==
    IF ks = <<>> THEN slice
    ELSE AppendAllIfMissing(appendIfMissing(slice, Head(ks)), Tail(ks))

RECURSIVE CollectHeaders(_, _, _)
\* the values headers may have after the loop over records r..Len(v), from
\* headers in hs
CollectHeaders(v, r, hs) ==
    IF r > Len(v) THEN hs
    ELSE CollectHeaders(v, r + 1,
             UNION {{AppendAllIfMissing(h, q) : q \in Orderings(DOMAIN v[r])} : h \in hs})

\* a line written by csv.Writer.Write: its cells, and the w.Comma between them
Line(kind, cells, comma) == [kind |-> kind, cells |-> cells, comma |-> comma]

\* the data rows of parseJSONByRecord
RecordRows(v, headers, comma) ==
    [r \in 1..Len(v) |->
        Line("row",
             [c \in 1..Len(headers) |->
                 IF headers[c] \in DOMAIN v[r] THEN Stringify(v[r][headers[c]]) ELSE <<>>],
             comma)]

\* part_000: what one call may leave and return, d the session before it
parseJSONByRecord(d, v, comma) ==
    {IF ~d.headersSet
     THEN [d |-> [headersSet |-> TRUE, expectedHeaders |-> headers],
           out |-> RecordRows(v, headers, comma), err |-> "nil"]
     ELSE IF \E i \in 1..Len(headers) :
                 \A j \in 1..Len(d.expectedHeaders) : d.expectedHeaders[j] # headers[i]
     THEN [d |-> d, out |-> <<>>, err |-> "Object did not contain the proper keys"]
     ELSE [d |-> d,
           out |-> <<Line("header", d.expectedHeaders, comma)>>
                   \o RecordRows(v, d.expectedHeaders, comma),
           err |-> "nil"]
     : headers \in CollectHeaders(v, 1, {<<>>})}

\* csvconv.go: the header line is written by every call that returns no error
parseJSONByRecordOld(d, v, comma) ==
    {IF ~d.headersSet
     THEN [d |-> [headersSet |-> TRUE, expectedHeaders |-> headers],
           out |-> <<Line("header", headers, comma)>> \o RecordRows(v, headers, comma),
           err |-> "nil"]
     ELSE IF \E i \in 1..Len(headers) :
                 \A j \in 1..Len(d.expectedHeaders) : d.expectedHeaders[j] # headers[i]
     THEN [d |-> d, out |-> <<>>, err |-> "Object did not contain the proper keys"]
     ELSE [d |-> d,
           out |-> <<Line("header", d.expectedHeaders, comma)>>
                   \o RecordRows(v, d.expectedHeaders, comma),
           err |-> "nil"]
     : headers \in CollectHeaders(v, 1, {<<>>})}

\* the length of the longest array
MaxLength(v) ==
    IF DOMAIN v = {} THEN 0
    ELSE CHOOSE n \in {Len(v[k]) : k \in DOMAIN v} : \A k \in DOMAIN v : Len(v[k]) <= n

\* row[j] for row index i (from 0) of a column: "" when len(values) < i, and
\* values[i] otherwise, which is out of range when len(values) = i
ColumnCell(values, i) ==
    IF Len(values) < i THEN [panic |-> FALSE, cell |-> <<>>]
    ELSE IF i >= Len(values) THEN [panic |-> TRUE, cell |-> <<>>]
    ELSE [panic |-> FALSE, cell |-> Stringify(values[i + 1])]

\* the rows loop of parseJSONByColumn; the writer's Comma is never set, and
\* is csv.NewWriter's ','
ColumnRows(v, colnames) ==
    [i \in 1..MaxLength(v) |->
        Line("row", [j \in 1..Len(colnames) |-> ColumnCell(v[colnames[j]], i - 1).cell], ",")]

ColumnPanics(v, colnames) ==
    \E i \in 1..MaxLength(v), j \in 1..Len(colnames) : ColumnCell(v[colnames[j]], i - 1).panic

\* part_000: what one call may leave and return, d the session before it
parseJSONByColumn(d, v) ==
    {IF d.headersSet
     THEN IF \E i \in 1..Len(keys) :
                 \A j \in 1..Len(d.expectedHeaders) : d.expectedHeaders[j] # keys[i]
          THEN [d |-> d, out |-> <<>>, err |-> "JSON keys did not match expected headers"]
          ELSE IF \E j \in 1..Len(d.expectedHeaders) : d.expectedHeaders[j] \notin DOMAIN v
          THEN [d |-> d, out |-> <<>>, err |-> "JSON missing keys"]
          ELSE IF ColumnPanics(v, d.expectedHeaders)
          THEN [d |-> d, out |-> <<>>, err |-> "panic: index out of range"]
          ELSE [d |-> d, out |-> ColumnRows(v, d.expectedHeaders), err |-> "nil"]
     ELSE LET d1 == [d EXCEPT !.expectedHeaders = keys]
          IN IF ColumnPanics(v, keys)
             THEN [d |-> d1, out |-> <<>>, err |-> "panic: index out of range"]
             ELSE [d |-> d1,
                   out |-> <<Line("header", keys, ",")>> \o ColumnRows(v, keys),
                   err |-> "nil"]
     : keys \in Orderings(DOMAIN v)}

\* csvconv.go: a stub
parseJSONByColumnOld(d, v) == {[d |-> d, out |-> <<>>, err |-> "nil"]}

\* d.ToCSV(data, comma) of the build bld: what the call may leave and return
ToCSV(bld, d, data, comma) ==
    IF UnmarshalByRecordOK(data)
    THEN IF bld = "part_000"
         THEN parseJSONByRecord(d, DecodeRecords(data), comma)
         ELSE parseJSONByRecordOld(d, DecodeRecords(data), comma)
    ELSE IF ~UnmarshalByColumnOK(data)
    THEN {[d |-> d, out |-> <<>>, err |-> "JSON does not conform to CSV encodings"]}
    ELSE IF bld = "part_000"
         THEN parseJSONByColumn(d, DecodeColumns(data))
         ELSE parseJSONByColumnOld(d, DecodeColumns(data))

\* the JSONReader's fields as one value
Session == [headersSet |-> headersSet, expectedHeaders |-> expectedHeaders]

\* one call d.ToCSV(data, comma)
ToCSVCall(data, comma) ==
    /\ nCalls < MaxCalls
    /\ \E x \in ToCSV(build, Session, data, comma) :
          /\ headersSet' = x.d.headersSet
          /\ expectedHeaders' = x.d.expectedHeaders
          /\ payload' = data /\ sep' = comma /\ prev' = Session
          /\ csvOut' = x.out /\ csvErr' = x.err
          /\ nCalls' = nCalls + 1
          /\ nOk' = IF x.err = "nil" THEN nOk + 1 ELSE nOk
    /\ UNCHANGED <<build, readerVars>>

\* ---- the payloads of the ToCSV calls

Keys == {A, B}
KeySeq == <<A, B>>
PayloadToks == {RawTok(<<"1">>), NullTok, Quote(<<"x">>)}

\* the keys of K, in the order of KeySeq
InOrder(K) == LET F[i \in 0..Len(KeySeq)] ==
                      IF i = 0 THEN <<>>
                      ELSE IF KeySeq[i] \in K THEN Append(F[i - 1], KeySeq[i]) ELSE F[i - 1]
              IN F[Len(KeySeq)]

Arrays == UNION {[1..n -> PayloadToks] : n \in 0..MaxLen}

\* {"a":[...],"b":[...]}
ColumnPayloads ==
    UNION {{[shape |-> "object",
             members |-> [i \in 1..Len(InOrder(K)) |->
                             [key |-> Quote(InOrder(K)[i]), vals |-> f[InOrder(K)[i]]]]]
            : f \in [K -> Arrays]}
           : K \in SUBSET Keys \ {{}}}

\* {"a":..,"b":..}, each key there or not, one at least
Objects ==
    UNION {{[i \in 1..Len(InOrder(K)) |->
                [key |-> Quote(InOrder(K)[i]), val |-> f[InOrder(K)[i]]]]
            : f \in [K -> PayloadToks]}
           : K \in SUBSET Keys \ {{}}}

\* [{..},{..}]
RecordPayloads ==
    {[shape |-> "array", members |-> rows] : rows \in UNION {[1..n -> Objects] : n \in 1..MaxRecs}}

\* csvconv_test.go:56  {"a":[1,4],"b":[2,5]}
TestColumnPayload ==
    [shape |-> "object",
     members |-> <<[key |-> Quote(A), vals |-> <<RawTok(<<"1">>), RawTok(<<"4">>)>>],
                   [key |-> Quote(B), vals |-> <<RawTok(<<"2">>), RawTok(<<"5">>)>>]>>]
\* csvconv_test.go:57  [{"a":1,"b":2},{"a":4,"b":null}]
TestRecordPayload ==
    [shape |-> "array",
     members |-> <<<<[key |-> Quote(A), val |-> RawTok(<<"1">>)], [key |-> Quote(B), val |-> RawTok(<<"2">>)]>>,
                   <<[key |-> Quote(A), val |-> RawTok(<<"4">>)], [key |-> Quote(B), val |-> NullTok]>>>>]
\* {"a":[1,4],"b":[2]}
RaggedPayload ==
    [shape |-> "object",
     members |-> <<[key |-> Quote(A), vals |-> <<RawTok(<<"1">>), RawTok(<<"4">>)>>],
                   [key |-> Quote(B), vals |-> <<RawTok(<<"2">>)>>]>>]
\* 3
ScalarPayload == [shape |-> "scalar", members |-> <<>>]

Payloads == ColumnPayloads \cup RecordPayloads
            \cup {TestColumnPayload, TestRecordPayload, RaggedPayload, ScalarPayload}

InitToCSV ==
    /\ build \in Builds
    /\ input = <<>>
    /\ NewReader
    /\ NewJSONReader

NextToCSV == \E data \in Payloads, comma \in Seps : ToCSVCall(data, comma)

\* one JSONReader session, and any sequence of ToCSV calls on it
SpecToCSV == InitToCSV /\ [][NextToCSV]_vars

----------------------------------------------------------------------------
(* The two converters in a row *)

\* the bytes the last ToJSON call returned, given to ToCSV on a fresh session
FeedBack(comma) ==
    /\ jsonCalled
    /\ nCalls = 0
    /\ ToCSVCall(jsonData, comma)

Init ==
    /\ build \in Builds
    /\ input \in WellFormedDocs(CellValuesRT)
    /\ NewReader
    /\ NewJSONReader

\* the whole document, or one row at a time
FeedLimits == {0 - 1, 1}

Next ==
    \/ \E o \in {OrientColumns, OrientRecords}, n \in FeedLimits : ToJSONCall(o, n)
    \/ \E comma \in Seps : FeedBack(comma)

\* a Reader over a well-formed document, ToJSON calls on it, and the bytes of
\* one of them converted back by a fresh JSONReader
Spec == Init /\ [][Next]_vars

----------------------------------------------------------------------------
(* Properties of JSONReader.ToCSV, under SpecToCSV *)

Range(q) == {q[i] : i \in 1..Len(q)}

\* the keys of a payload: of the object, or of all the objects of the array
PayloadKeys(data) ==
    IF data.shape = "object"
    THEN {data.members[i].key.text : i \in 1..Len(data.members)}
    ELSE IF data.shape = "array"
    THEN UNION {{data.members[r][i].key.text : i \in 1..Len(data.members[r])}
                : r \in 1..Len(data.members)}
    ELSE {}

\* the successful calls of the session before the last call
OkBefore == IF csvErr = "nil" THEN nOk - 1 ELSE nOk

\* the last call returned an error (it did not panic)
ReturnedError == csvErr \notin {"nil", "panic: index out of range"}

\* the last call wrote the header line
HeaderWritten == \E i \in 1..Len(csvOut) : csvOut[i].kind = "header"

\* C1: the locked header of a session changes at most once: after a
\* successful call no call changes it, and a call that returns an error
\* leaves it as it was.
C1_HeaderLockedOnce ==
    (build = "part_000" /\ nCalls >= 1) =>
        /\ (OkBefore >= 1 => expectedHeaders = prev.expectedHeaders)
        /\ (ReturnedError => expectedHeaders = prev.expectedHeaders)

\* C2: over the successful calls of a session, the header line is in the
\* output of the first one and of no later one.
C2_HeaderLineOnce ==
    (build = "part_000" /\ nCalls >= 1 /\ csvErr = "nil") => (HeaderWritten <=> nOk = 1)

\* C3: once an earlier call of the session has succeeded, a column payload
\* whose key set is not the locked one fails, a record payload with a key
\* outside the locked set fails, and a payload with the locked key set
\* succeeds.
C3_DivergingKeysRejected ==
    (build = "part_000" /\ nCalls >= 2 /\ OkBefore >= 1) =>
        /\ (UnmarshalByColumnOK(payload) /\ PayloadKeys(payload) # Range(prev.expectedHeaders)
               => csvErr # "nil")
        /\ (UnmarshalByRecordOK(payload)
               /\ ~(PayloadKeys(payload) \subseteq Range(prev.expectedHeaders))
               => csvErr # "nil")
        /\ ((UnmarshalByColumnOK(payload) \/ UnmarshalByRecordOK(payload))
               /\ PayloadKeys(payload) = Range(prev.expectedHeaders)
               => csvErr = "nil")

\* the cell C4 names for a token: an integer-valued number as plain decimal
\* text, null as nothing, a string as it stands
PlainCellOK(tok, cell) ==
    IF tok.t = "raw"
    THEN ParseFloatVal(tok.text) % 1000000 = 0
            => cell = Decimal(ParseFloatVal(tok.text) \div 1000000)
    ELSE IF tok.t = "null" THEN cell = <<>>
    ELSE cell = tok.text

\* C4: on a fresh session a record payload gives the header line, then one
\* line per row: integer-valued numbers as plain decimal text, null and
\* missing keys as empty cells, strings as they stand.
C4_RecordRowsPlain ==
    (build = "part_000" /\ nCalls = 1 /\ UnmarshalByRecordOK(payload)) =>
        /\ csvErr = "nil"
        /\ Len(csvOut) = 1 + Len(payload.members)
        /\ csvOut[1].kind = "header"
        /\ Len(csvOut[1].cells) = Cardinality(PayloadKeys(payload))
        /\ Range(csvOut[1].cells) = PayloadKeys(payload)
        /\ \A r \in 1..Len(payload.members) :
              /\ csvOut[r + 1].kind = "row"
              /\ Len(csvOut[r + 1].cells) = Len(csvOut[1].cells)
              /\ \A j \in 1..Len(csvOut[1].cells) :
                    LET ms == payload.members[r]
                        k == csvOut[1].cells[j]
                    IN IF \E i \in 1..Len(ms) : ms[i].key.text = k
                       THEN PlainCellOK(ms[LastWith(ms, k)].val, csvOut[r + 1].cells[j])
                       ELSE csvOut[r + 1].cells[j] = <<>>

\* the column arrays of a payload have different lengths
Ragged(data) ==
    \E i, j \in 1..Len(data.members) : Len(data.members[i].vals) # Len(data.members[j].vals)

\* C5: on a fresh session a column payload with arrays of different lengths
\* is converted without failure, to as many rows as the longest array holds;
\* a cell past the end of its column's array is empty, every other cell
\* holds the array's element.
C5_RaggedColumnsPadded ==
    (/\ build = "part_000" /\ nCalls = 1 /\ UnmarshalByColumnOK(payload)
     /\ Ragged(payload)) =>
        /\ csvErr = "nil"
        /\ Len(csvOut) = 1 + MaxLength(DecodeColumns(payload))
        /\ \A i \in 1..MaxLength(DecodeColumns(payload)) :
              \A j \in 1..Len(csvOut[1].cells) :
                  LET values == DecodeColumns(payload)[csvOut[1].cells[j]]
                  IN csvOut[i + 1].cells[j] =
                        IF i > Len(values) THEN <<>> ELSE Stringify(values[i])

----------------------------------------------------------------------------
(* Properties of Reader.ToJSON, under SpecToJSON and Spec *)

\* the records the csv.Reader had consumed when the last call began to read
\* data rows (the header row is read first)
Start == IF offset0 = 0 THEN 1 ELSE offset0

\* the row at i is the first row of the wrong arity after Start, and the
\* last call got as far as reading it
BadRowReached(i) ==
    /\ i \in (Start + 1)..Len(input)
    /\ Len(input[i]) # Len(input[1])
    /\ \A j \in (Start + 1)..(i - 1) : Len(input[j]) = Len(input[1])
    /\ (nRowsArg < 0 \/ i - Start <= nRowsArg)

IntegerText(s) == DotAt(s) = 0

\* C6: in column orientation a column's array is of one type: with a string
\* in it every cell that is not null is a string, and with a decimal in it
\* no cell is an integer.
C6_ColumnOneType ==
    (jsonCalled /\ orient = OrientColumns /\ err = "nil") =>
        \A c \in 1..Len(jsonData.members) :
            LET vals == jsonData.members[c].vals
            IN /\ (\E i \in 1..Len(vals) : vals[i].t = "str")
                     => \A i \in 1..Len(vals) : vals[i].t \in {"str", "null"}
               /\ (\E i \in 1..Len(vals) : vals[i].t = "raw" /\ ~IntegerText(vals[i].text))
                     => \A i \in 1..Len(vals) :
                           ~(vals[i].t = "raw" /\ IntegerText(vals[i].text))

\* C8: over a well-formed document, a call returns io.EOF exactly when it
\* read no rows and none remained, and otherwise returns no error and the
\* number of rows it read: the limit, or all that remained.
C8_EOFOnlyWhenNothingRead ==
    (jsonCalled /\ WellFormed /\ orient \in {OrientColumns, OrientRecords}) =>
        LET rem == Len(input) - Start
            want == IF nRowsArg < 0 \/ nRowsArg > rem THEN rem ELSE nRowsArg
        IN /\ (err = "EOF") <=> (rowsRead = 0 /\ rem = 0)
           /\ (err # "EOF" => err = "nil" /\ rowsRead = want)

\* C9: a call that reaches a row of the wrong arity fails with
\* ErrFieldCount in both orientations, returns no bytes, and returns the
\* number of rows it read before that row.
C9_ArityErrorNoOutput ==
    (jsonCalled /\ orient \in {OrientColumns, OrientRecords}) =>
        \A i \in 1..Len(input) :
            BadRowReached(i) =>
                /\ err = "ErrFieldCount"
                /\ jsonData = EmptyBytes
                /\ rowsRead = i - Start - 1

\* a record-oriented call that had written a row when it met the bad row
W9_ArityErrorAfterRows ==
    /\ jsonCalled /\ orient = OrientRecords
    /\ \E i \in 1..Len(input) : BadRowReached(i) /\ i - Start - 1 >= 1
    /\ err = "ErrFieldCount" /\ rowsRead >= 1 /\ jsonData = EmptyBytes

\* cells that are the same text, or the same number
SameCell(x, y) ==
    \/ x = y
    \/ ParseFloatOK(x) /\ ParseFloatOK(y) /\ ParseFloatVal(x) = ParseFloatVal(y)

\* C10: the column-oriented bytes of a whole document with at least one
\* data row, given to ToCSV on a fresh session, come back as the same
\* column names and, column by column, the same cells up to the format of
\* numbers.
C10_RoundTrip ==
    (/\ build = "part_000" /\ nCalls = 1 /\ jsonCalled
     /\ orient = OrientColumns /\ nRowsArg < 0 /\ offset0 = 0 /\ err = "nil"
     /\ payload.shape = "object" /\ payload = jsonData
     /\ Len(input) >= 2) =>
        /\ csvErr = "nil"
        /\ Len(csvOut) = Len(input)
        /\ Range(csvOut[1].cells) = Range(input[1])
        /\ \A r \in 2..Len(input) : \A c \in 1..Len(input[1]) :
              \E j \in 1..Len(csvOut[1].cells) :
                  /\ csvOut[1].cells[j] = input[1][c]
                  /\ SameCell(csvOut[r].cells[j], input[r][c])

\* C11: every line of the output of a ToCSV call, the header line included,
\* has its cells separated by the separator the call was given, for record
\* payloads and for column payloads.
C11_SeparatorInEveryLine ==
    (build = "part_000" /\ nCalls >= 1 /\ csvErr = "nil") =>
        \A i \in 1..Len(csvOut) :
            Len(csvOut[i].cells) >= 2 => csvOut[i].comma = sep

====
